---- MODULE Spec2Model ----
(***************************************************************************)
(* scripts/generate_appcast.py: the appcast builder create_appcast and the *)
(* command-line driver main, as a state machine over the file system, the  *)
(* process streams and ElementTree's namespace registry.                   *)
(*                                                                         *)
(* XML text is modelled at the level of its tokens: an element is a name,  *)
(* a list of (attribute name, value) pairs in textual order, a text and    *)
(* its children.  Names are the strings that appear in the text            *)
(* ("sparkle:os", "xmlns:sparkle"), so that the serializer's mapping from  *)
(* {uri}local keys to prefixed names, and the parser's way back, are both  *)
(* computed.  Values are drawn from strings without markup characters,     *)
(* for which ElementTree's escaping leaves the value as it is.             *)
(***************************************************************************)
EXTENDS Integers, Sequences, FiniteSets, TLC

VARIABLES argv, files, registry, run, calls

vars == <<argv, files, registry, run, calls>>

-----------------------------------------------------------------------------
(* Bounds of the model *)

\* lengths given on the command line range over MinLength .. MaxLength
MaxLength == 1
\* the wall clock is read as a second 0 .. MaxClock of one fixed minute
MaxClock == 1
\* direct calls of create_appcast made by one host process
MaxCalls == 2

MinLength == 0 - 1

-----------------------------------------------------------------------------
(* Python values: None, and the truthiness used by "if x" and "a and b" *)

None == [some |-> FALSE]
Some(v) == [some |-> TRUE, v |-> v]

\* truthiness of an Optional[str]: None and "" are falsy
TruthyStr(o) == o.some /\ o.v # ""

\* truthiness of an Optional[int]: None and 0 are falsy
TruthyInt(o) == o.some /\ o.v # 0

-----------------------------------------------------------------------------
(* Namespaces and ElementTree's process-global registry _namespace_map *)

SPARKLE_NS == "http://www.andymatuschak.org/xml-namespaces/sparkle"
DC_NS == "http://purl.org/dc/elements/1.1/"
XML_NS == "http://www.w3.org/XML/1998/namespace"

\* the registry is a map uri -> prefix, kept as a set of <<uri, prefix>>;
\* ElementTree ships it with (among others) the xml and dc bindings
DefaultRegistry == {<<XML_NS, "xml">>, <<DC_NS, "dc">>}

\* ET.register_namespace(prefix, uri): every entry with that uri or that
\* prefix is deleted, then uri -> prefix is set
register_namespace(reg, prefix, uri) ==
  {e \in reg : e[1] # uri /\ e[2] # prefix} \cup {<<uri, prefix>>}

-----------------------------------------------------------------------------
(* ElementTree elements.  A key (tag or attribute name) is either a plain  *)
(* string or a name in a namespace, written "{uri}local" in Python.        *)

Plain(name) == [ns |-> "", local |-> name]
Clark(uri, local) == [ns |-> uri, local |-> local]

Element(tag, attrib, text, children) ==
  [tag |-> tag, attrib |-> attrib, text |-> text, children |-> children]

\* ET.SubElement(parent, tag).text = text
TextElement(tag, text) == Element(tag, <<>>, text, <<>>)

-----------------------------------------------------------------------------
(* create_appcast: the tree it builds *)

\* datetime.now(timezone.utc).strftime("%a, %d %b %Y %H:%M:%S +0000"), the
\* clock read as second `now` of 17:00 on 5 Nov 2026
pub_date(now) ==
  "Thu, 05 Nov 2026 17:00:" \o (IF now < 10 THEN "0" ELSE "") \o ToString(now)
    \o " +0000"

\* the root element and its three attributes, set by rss.set(...)
rss_attrib ==
  << <<Plain("version"), "2.0">>,
     <<Plain("xmlns:sparkle"), SPARKLE_NS>>,
     <<Plain("xmlns:dc"), DC_NS>> >>

\* "if win_length: win_enclosure.set('length', str(win_length))"
win_length_attrib(d) ==
  IF TruthyInt(d.win_length)
    THEN << <<Plain("length"), ToString(d.win_length.v)>> >>
    ELSE << >>

\* "if mac_length: mac_enclosure.set('length', str(mac_length))"
mac_length_attrib(d) ==
  IF TruthyInt(d.mac_length)
    THEN << <<Plain("length"), ToString(d.mac_length.v)>> >>
    ELSE << >>

\* the Windows enclosure: the children it adds to item (none or one)
win_enclosure(d) ==
  IF TruthyStr(d.win_url) /\ TruthyStr(d.win_signature)
    THEN << Element(Plain("enclosure"),
                    << <<Plain("url"), d.win_url.v>>,
                       <<Clark(SPARKLE_NS, "version"), d.version>>,
                       <<Clark(SPARKLE_NS, "os"), "windows">>,
                       <<Clark(SPARKLE_NS, "edSignature"), d.win_signature.v>> >>
                      \o win_length_attrib(d)
                      \o << <<Plain("type"), "application/octet-stream">> >>,
                    "", << >>) >>
    ELSE << >>

\* the macOS enclosure: the children it adds to item (none or one)
mac_enclosure(d) ==
  IF TruthyStr(d.mac_url) /\ TruthyStr(d.mac_signature)
    THEN << Element(Plain("enclosure"),
                    << <<Plain("url"), d.mac_url.v>>,
                       <<Clark(SPARKLE_NS, "version"), d.version>>,
                       <<Clark(SPARKLE_NS, "os"), "macos">>,
                       <<Clark(SPARKLE_NS, "edSignature"), d.mac_signature.v>> >>
                      \o mac_length_attrib(d)
                      \o << <<Plain("type"), "application/octet-stream">> >>,
                    "", << >>) >>
    ELSE << >>

\* the item of this release
item(d, now) ==
  Element(Plain("item"), << >>, "",
          << TextElement(Plain("title"), "Version " \o d.version),
             TextElement(Plain("pubDate"), pub_date(now)),
             TextElement(Clark(SPARKLE_NS, "releaseNotesLink"),
                         d.release_notes_url) >>
            \o win_enclosure(d) \o mac_enclosure(d))

channel(d, now) ==
  Element(Plain("channel"), << >>, "",
          << TextElement(Plain("title"), d.title),
             TextElement(Plain("link"), d.link),
             TextElement(Plain("description"), d.description),
             TextElement(Plain("language"), "en"),
             item(d, now) >>)

\* the whole tree, as it stands before it is serialized
rss(d, now) == Element(Plain("rss"), rss_attrib, "", << channel(d, now) >>)

\* the enclosure elements of a tree built by create_appcast: those among the
\* children of its item, the fifth child of its channel
enclosures(tree) ==
  SelectSeq(tree.children[1].children[5].children,
            LAMBDA c : c.tag = Plain("enclosure"))

-----------------------------------------------------------------------------
(* ET.tostring(rss, encoding="unicode", method="xml")                      *)

RECURSIVE iter_keys(_)
\* the tags and attribute keys of a tree in document order (elem.iter())
iter_keys(e) ==
  LET RECURSIVE of_children(_)
      of_children(cs) ==
        IF cs = << >> THEN << >>
        ELSE iter_keys(Head(cs)) \o of_children(Tail(cs))
  IN  <<e.tag>> \o [i \in 1..Len(e.attrib) |-> e.attrib[i][1]]
        \o of_children(e.children)

\* the prefix of a uri first met: the registered one, else ns<count>
new_prefix(namespaces, reg, uri) ==
  IF \E r \in reg : r[1] = uri
    THEN (CHOOSE r \in reg : r[1] = uri)[2]
    ELSE "ns" \o ToString(Cardinality(namespaces))

\* add_qname: a key in a namespace not yet met adds uri -> prefix to the
\* declarations of the document (the xml prefix is never declared)
add_qname(namespaces, reg, key) ==
  IF key.ns = "" \/ (\E n \in namespaces : n[1] = key.ns)
    THEN namespaces
    ELSE LET p == new_prefix(namespaces, reg, key.ns)
         IN  IF p = "xml" THEN namespaces ELSE namespaces \cup {<<key.ns, p>>}

RECURSIVE namespaces_of(_, _, _)
\* the namespaces the tree uses, with the prefix chosen for each
namespaces_of(keys, reg, acc) ==
  IF keys = << >> THEN acc
  ELSE namespaces_of(Tail(keys), reg, add_qname(acc, reg, Head(keys)))

\* the name a key is written with: "local" or "prefix:local"
qname(key, namespaces, reg) ==
  IF key.ns = "" THEN key.local
  ELSE (IF \E n \in namespaces : n[1] = key.ns
          THEN (CHOOSE n \in namespaces : n[1] = key.ns)[2]
          ELSE new_prefix(namespaces, reg, key.ns)) \o ":" \o key.local

\* the prefixes ElementTree can choose here, in the order sorted() puts them
PrefixOrder == <<"dc", "ns0", "ns1", "sparkle", "xml">>

\* the xmlns declarations written into the root's start tag, sorted by prefix
xmlns_decls(namespaces) ==
  LET used == SelectSeq(PrefixOrder, LAMBDA p : \E n \in namespaces : n[2] = p)
  IN  [i \in 1..Len(used) |->
         <<"xmlns:" \o used[i], (CHOOSE n \in namespaces : n[2] = used[i])[1]>>]

RECURSIVE serialize_xml(_, _, _, _)
\* one element as text: its name, then (on the root) the xmlns declarations,
\* then its own attributes in insertion order, its text and its children
serialize_xml(e, namespaces, reg, decls) ==
  [name     |-> qname(e.tag, namespaces, reg),
   attrs    |-> decls \o [i \in 1..Len(e.attrib) |->
                  <<qname(e.attrib[i][1], namespaces, reg), e.attrib[i][2]>>],
   text     |-> e.text,
   children |-> [i \in 1..Len(e.children) |->
                  serialize_xml(e.children[i], namespaces, reg, << >>)]]

tostring(e, reg) ==
  LET namespaces == namespaces_of(iter_keys(e), reg, {})
  IN  serialize_xml(e, namespaces, reg, xmlns_decls(namespaces))

-----------------------------------------------------------------------------
(* minidom.parseString: expat with namespace processing *)

KnownPrefixes == {"xmlns", "xml", "sparkle", "dc", "ns0", "ns1"}
KnownLocals ==
  {"sparkle", "dc", "ns0", "ns1", "releaseNotesLink", "version", "os",
   "edSignature"}

\* a name of the text read back as prefix and local part
split_qname(name) ==
  LET Lexemes == {[prefix |-> p, local |-> l] :
                    p \in KnownPrefixes, l \in KnownLocals}
  IN  IF \E q \in Lexemes : name = q.prefix \o ":" \o q.local
        THEN CHOOSE q \in Lexemes : name = q.prefix \o ":" \o q.local
        ELSE [prefix |-> "", local |-> name]

\* expat: "duplicate attribute", two attributes of one start tag with one name
duplicate_attribute(x) ==
  \E i, j \in 1..Len(x.attrs) : i < j /\ x.attrs[i][1] = x.attrs[j][1]

\* the prefixes a start tag declares
declared(x) ==
  {split_qname(x.attrs[i][1]).local :
     i \in {k \in 1..Len(x.attrs) : split_qname(x.attrs[k][1]).prefix = "xmlns"}}

\* expat: "unbound prefix", a prefix used with no declaration in scope
unbound_prefix(x, scope) ==
  \/ split_qname(x.name).prefix \notin scope \cup {"", "xml"}
  \/ \E i \in 1..Len(x.attrs) :
       split_qname(x.attrs[i][1]).prefix \notin scope \cup {"", "xml", "xmlns"}

RECURSIVE parse_error(_, _)
\* the first error expat meets in document order, "" when there is none
parse_error(x, scope) ==
  LET inner == scope \cup declared(x)
      RECURSIVE first_of(_)
      first_of(cs) ==
        IF cs = << >> THEN ""
        ELSE LET err == parse_error(Head(cs), inner)
             IN  IF err # "" THEN err ELSE first_of(Tail(cs))
  IN  IF duplicate_attribute(x) THEN "duplicate attribute"
      ELSE IF unbound_prefix(x, inner) THEN "unbound prefix"
      ELSE first_of(x.children)

\* minidom.parseString(rough_string): the DOM, or an ExpatError raised
parseString(rough_string) ==
  LET err == parse_error(rough_string, {})
  IN  IF err = "" THEN [ok |-> TRUE, error |-> "", dom |-> Some(rough_string)]
      ELSE [ok |-> FALSE, error |-> "ExpatError: " \o err, dom |-> None]

\* reparsed.toprettyxml(indent="  ") with its blank lines removed: the XML
\* declaration minidom writes, then the document element
toprettyxml(dom) == [decl |-> "<?xml version=\"1.0\" ?>", root |-> dom]

-----------------------------------------------------------------------------
(* create_appcast *)

\* a slip in the two registrations: the prefix dc given the Sparkle URI
create_appcast_registry_Swapped(reg) ==
  register_namespace(register_namespace(reg, "sparkle", SPARKLE_NS),
                     "dc", SPARKLE_NS)

\* the registry after ET.register_namespace("sparkle", ...) and ("dc", ...)
create_appcast_registry(reg) ==
  register_namespace(register_namespace(reg, "sparkle", SPARKLE_NS),
                     "dc", DC_NS)

\* the call's outcome: the string returned, or the exception that leaves it
create_appcast(d, now, reg) ==
  LET rough_string == tostring(rss(d, now), create_appcast_registry(reg))
      reparsed == parseString(rough_string)
  IN  IF reparsed.ok
        THEN [ok |-> TRUE, raised |-> "",
              xml |-> Some(toprettyxml(reparsed.dom.v))]
        ELSE [ok |-> FALSE, raised |-> reparsed.error, xml |-> None]

-----------------------------------------------------------------------------
(* main: the argument parser *)

\* int(token), argparse's type=int: the integer a token writes, when it
\* writes one
parse_int(raw) ==
  IF \E n \in MinLength..MaxLength : ToString(n) = raw
    THEN Some(CHOOSE n \in MinLength..MaxLength : ToString(n) = raw)
    ELSE None

\* a length option whose token int() rejects
bad_int(o) == o.some /\ ~parse_int(o.v).some

\* a length option as the Namespace holds it: None when the option is absent
int_arg(o) == IF o.some THEN parse_int(o.v) ELSE None

\* a string option with a default
with_default(o, default) == IF o.some THEN o.v ELSE default

\* parser.parse_args(): -h (taken as the first option of the command line,
\* argparse acts on it where it stands) prints the help and exits 0; a
\* length token that is no integer, or a required option left out, is a
\* usage error (exit status 2); otherwise the Namespace, defaults applied
parse_args(av) ==
  [status |-> IF av.help THEN "help"
              ELSE IF bad_int(av.win_length) \/ bad_int(av.mac_length)
                THEN "error"
              ELSE IF ~av.version.some \/ ~av.release_notes_url.some
                THEN "error"
              ELSE "ok",
   args |-> [version           |-> with_default(av.version, ""),
             release_notes_url |-> with_default(av.release_notes_url, ""),
             win_url           |-> av.win_url,
             win_signature     |-> av.win_signature,
             win_length        |-> int_arg(av.win_length),
             mac_url           |-> av.mac_url,
             mac_signature     |-> av.mac_signature,
             mac_length        |-> int_arg(av.mac_length),
             output            |-> with_default(av.output, "appcast.xml"),
             title             |-> with_default(av.title, "OrcaSlicer Updates"),
             link              |-> with_default(av.link,
                                     "https://github.com/OrcaSlicer/OrcaSlicer")]]

-----------------------------------------------------------------------------
(* main: validation, generation, output *)

\* what a stream or a file holds: a line of text, or a document
Text(t) == [kind |-> "text", text |-> t, xml |-> None]
Xml(doc) == [kind |-> "xml", text |-> "", xml |-> doc]

\* files: a path holds nothing, or what was there before the run, or what
\* the run wrote
Absent == [kind |-> "absent", text |-> "", xml |-> None]
Old == Text("old contents")

\* the result of a run: exit status, what went to the two streams, the file
\* system it leaves, the steps it took in order, and whether it called
\* create_appcast
Outcome(exit, out, err, fs, events, built) ==
  [exit |-> exit, stdout |-> out, stderr |-> err, files |-> fs,
   events |-> events, built |-> built]

\* a slip in the validation: "or" where the code has "and"
has_windows_Or(args) == TruthyStr(args.win_url) \/ TruthyStr(args.win_signature)

\* has_windows = args.win_url and args.win_signature
has_windows(args) == TruthyStr(args.win_url) /\ TruthyStr(args.win_signature)

\* has_macos = args.mac_url and args.mac_signature
has_macos(args) == TruthyStr(args.mac_url) /\ TruthyStr(args.mac_signature)

\* the keyword arguments main passes to create_appcast; description is left
\* to its default
descriptor(args) ==
  [version           |-> args.version,
   release_notes_url |-> args.release_notes_url,
   win_url           |-> args.win_url,
   win_signature     |-> args.win_signature,
   win_length        |-> args.win_length,
   mac_url           |-> args.mac_url,
   mac_signature     |-> args.mac_signature,
   mac_length        |-> args.mac_length,
   title             |-> args.title,
   description       |-> "Most recent updates to OrcaSlicer",
   link              |-> args.link]

\* "# Write output": print to standard output, or open the file for writing
\* (which empties or creates it), write, close and report
write_output(args, xml_content, fs, events) ==
  IF args.output = "-"
    THEN Outcome(0, <<Xml(xml_content)>>, << >>, fs,
                 events \o <<"print">>, TRUE)
    ELSE Outcome(0, <<Text("Appcast written to: " \o args.output)>>, << >>,
                 [fs EXCEPT ![args.output] = Xml(xml_content)],
                 events \o <<"open", "write", "close", "print">>, TRUE)

\* a slip in the order of main: the output file opened for writing (and so
\* emptied) before create_appcast is called
generate_OpenFirst(args, fs, now, events) ==
  LET opened == IF args.output = "-" THEN fs
                ELSE [fs EXCEPT ![args.output] = Text("")]
      r == create_appcast(descriptor(args), now, DefaultRegistry)
  IN  IF r.ok
        THEN Outcome(0, << >>, << >>,
                     IF args.output = "-" THEN fs
                     ELSE [fs EXCEPT ![args.output] = Xml(r.xml)],
                     events \o <<"open", "create_appcast", "returned",
                                 "write", "close">>, TRUE)
        ELSE Outcome(1, << >>, <<Text("Traceback: " \o r.raised)>>, opened,
                     events \o <<"open", "create_appcast", "raised">>, TRUE)

\* "# Generate appcast" and what follows: an exception of create_appcast is
\* not caught, the interpreter prints the traceback and exits with status 1
generate(args, fs, now, events) ==
  LET r == create_appcast(descriptor(args), now, DefaultRegistry)
  IN  IF r.ok
        THEN write_output(args, r.xml, fs,
                          events \o <<"create_appcast", "returned">>)
        ELSE Outcome(1, << >>, <<Text("Traceback: " \o r.raised)>>, fs,
                     events \o <<"create_appcast", "raised">>, TRUE)

\* one run of the script on the command line av, in a fresh interpreter
main(av, fs, now) ==
  LET p == parse_args(av)
  IN  IF p.status = "help"
        THEN Outcome(0, <<Text("usage: generate_appcast.py ...")>>, << >>,
                     fs, <<"parse_args">>, FALSE)
      ELSE IF p.status = "error"
        THEN Outcome(2, << >>, <<Text("usage error")>>, fs,
                     <<"parse_args">>, FALSE)
      ELSE IF ~has_windows(p.args) /\ ~has_macos(p.args)
        THEN Outcome(1, << >>,
                     <<Text("Error: At least one platform (Windows or macOS) must have both URL and signature")>>,
                     fs, <<"parse_args", "validate">>, FALSE)
      ELSE generate(p.args, fs, now, <<"parse_args", "validate">>)

-----------------------------------------------------------------------------
(* The command lines, file systems and registries the model starts from *)

WIN_URL == "https://a/b.exe"
WIN_SIG == "WSIG"
MAC_URL == "https://a/b.dmg"
MAC_SIG == "MSIG"

\* an option left out, given empty, or given the value v
StrOpts(v) == {None, Some(""), Some(v)}

\* a length option left out, given a token that is no integer, or given an
\* integer of MinLength .. MaxLength
LengthTokens ==
  {None, Some("abc")} \cup {Some(ToString(n)) : n \in MinLength..MaxLength}

Outputs == {None, Some("-"), Some("other.xml")}

Argv(help, version, wu, ws, wl, mu, ms, ml, output, title) ==
  [help |-> help, version |-> version,
   release_notes_url |-> Some("https://x/y"),
   win_url |-> wu, win_signature |-> ws, win_length |-> wl,
   mac_url |-> mu, mac_signature |-> ms, mac_length |-> ml,
   output |-> output, title |-> title, link |-> None]

\* every way of giving or leaving out the urls and signatures
PlatformArgvs ==
  {Argv(FALSE, Some("2.1.0"), wu, ws, None, mu, ms, None, o, None) :
     wu \in StrOpts(WIN_URL), ws \in StrOpts(WIN_SIG),
     mu \in StrOpts(MAC_URL), ms \in StrOpts(MAC_SIG), o \in Outputs}

\* both platforms given, with every pair of length options
LengthArgvs ==
  {Argv(FALSE, Some("2.1.0"), Some(WIN_URL), Some(WIN_SIG), wl,
        Some(MAC_URL), Some(MAC_SIG), ml, o, None) :
     wl \in LengthTokens, ml \in LengthTokens, o \in Outputs}

\* -h, --version left out, another version, another title
UsageArgvs ==
  {Argv(h, v, wu, Some(WIN_SIG), None, None, None, None, o, t) :
     h \in BOOLEAN, v \in {None, Some("2.1.0"), Some("3.0")},
     wu \in {None, Some(WIN_URL)}, o \in Outputs,
     t \in {None, Some("Nightly")}}

Argvs == PlatformArgvs \cup LengthArgvs \cup UsageArgvs

Paths == {"appcast.xml", "other.xml"}

\* a host process may have bound the prefix sparkle to something else before
\* it calls create_appcast
InitialRegistries ==
  {DefaultRegistry, DefaultRegistry \cup {<<"urn:example:other", "sparkle">>}}

-----------------------------------------------------------------------------
(* The state machine *)

NoRun == [done |-> FALSE]

Init ==
  /\ argv \in Argvs
  /\ files \in [Paths -> {Absent, Old}]
  /\ registry \in InitialRegistries
  /\ run = NoRun
  /\ calls = << >>

\* the script is run on the command line argv
Main ==
  /\ ~run.done
  /\ \E now \in 0..MaxClock :
       LET r == main(argv, files, now)
       IN  /\ run' = [done |-> TRUE, before |-> files, out |-> r]
           /\ files' = r.files
  /\ UNCHANGED <<argv, registry, calls>>

\* a host process calls create_appcast with the descriptor argv describes;
\* its clock does not run backwards between two calls.  The call is recorded
\* with the time it read, the registry it found, the enclosures it put into
\* the tree, and how it ended
Build ==
  /\ Len(calls) < MaxCalls
  /\ parse_args(argv).status = "ok"
  /\ \E now \in 0..MaxClock :
       /\ calls # << >> => calls[Len(calls)].now <= now
       /\ calls' = Append(calls,
            [now |-> now, before |-> registry,
             emitted |-> enclosures(rss(descriptor(parse_args(argv).args), now)),
             result |-> create_appcast(descriptor(parse_args(argv).args),
                                       now, registry)])
  /\ registry' = create_appcast_registry(registry)
  /\ UNCHANGED <<argv, files, run>>

Next == Main \/ Build

Spec == Init /\ [][Next]_vars

-----------------------------------------------------------------------------
(* Reading a returned document back, as ET.fromstring does: the xmlns      *)
(* declarations bind prefixes, and every other name is resolved to a key   *)

\* the prefix -> uri bindings a start tag declares
bindings(x) ==
  {<<split_qname(x.attrs[i][1]).local, x.attrs[i][2]>> :
     i \in {k \in 1..Len(x.attrs) : split_qname(x.attrs[k][1]).prefix = "xmlns"}}

resolve(name, scope) ==
  LET q == split_qname(name)
  IN  IF q.prefix = "" THEN Plain(q.local)
      ELSE Clark((CHOOSE b \in scope : b[1] = q.prefix)[2], q.local)

RECURSIVE fromstring_element(_, _)
fromstring_element(x, scope) ==
  LET inner == scope \cup bindings(x)
      kept == SelectSeq(x.attrs, LAMBDA a : split_qname(a[1]).prefix # "xmlns")
  IN  Element(resolve(x.name, inner),
              [i \in 1..Len(kept) |-> <<resolve(kept[i][1], inner), kept[i][2]>>],
              x.text,
              [i \in 1..Len(x.children) |->
                 fromstring_element(x.children[i], inner)])

fromstring(doc) == fromstring_element(doc.root, {})

\* the children of e with the given tag, in document order
Children(e, tag) == SelectSeq(e.children, LAMBDA c : c.tag = tag)

\* the channel/item of a tree
ItemOf(tree) == Children(Children(tree, Plain("channel"))[1], Plain("item"))[1]

\* the enclosures of an item, in document order
Enclosures(it) == Children(it, Plain("enclosure"))

HasAttr(e, key) == \E i \in 1..Len(e.attrib) : e.attrib[i][1] = key
Attr(e, key) ==
  e.attrib[CHOOSE i \in 1..Len(e.attrib) : e.attrib[i][1] = key][2]

\* those of a sequence of enclosures whose sparkle:os is os
WithOs(es, os) ==
  SelectSeq(es,
            LAMBDA e : /\ HasAttr(e, Clark(SPARKLE_NS, "os"))
                       /\ Attr(e, Clark(SPARKLE_NS, "os")) = os)

\* the enclosures of an item whose sparkle:os is os
EnclosuresFor(it, os) == WithOs(Enclosures(it), os)

\* the position of the first child of e with the given tag (0: none)
IndexOf(e, tag) ==
  IF \E i \in 1..Len(e.children) : e.children[i].tag = tag
    THEN CHOOSE i \in 1..Len(e.children) :
           /\ e.children[i].tag = tag
           /\ \A j \in 1..(i - 1) : e.children[j].tag # tag
    ELSE 0

-----------------------------------------------------------------------------
(* What the claims speak of *)

\* a url and signature pair is fully specified: both given and non-empty
FullySpecified(url, sig) == url.some /\ sig.some /\ url.v # "" /\ sig.v # ""

WinGiven == FullySpecified(argv.win_url, argv.win_signature)
MacGiven == FullySpecified(argv.mac_url, argv.mac_signature)

\* the command line parses: no -h, the required options, integer lengths
Parses == parse_args(argv).status = "ok"

\* the descriptor argv describes, and whether it is a valid one
desc == descriptor(parse_args(argv).args)
ValidDescriptor == Parses /\ (WinGiven \/ MacGiven)

\* the path the run writes to
OutputPath == parse_args(argv).args.output

\* the run took the step ev
Took(ev) == \E i \in 1..Len(run.out.events) : run.out.events[i] = ev

-----------------------------------------------------------------------------
(* C1 *)

\* what C1 says of a run: exit status 1, a diagnostic on the error stream,
\* create_appcast not called, the output path neither opened nor written,
\* and every file as it was before the run
RejectedRun ==
  /\ run.out.exit = 1
  /\ run.out.stderr # << >>
  /\ ~run.out.built
  /\ ~Took("open") /\ ~Took("write")
  /\ files = run.before

\* C1, as stated: every run of the driver in which neither the Windows pair
\* nor the macOS pair is fully specified is a rejected run
C1_UnspecifiedRunExitsOne ==
  (run.done /\ ~WinGiven /\ ~MacGiven) => RejectedRun

\* C1, amended: every run of the driver whose command line parses and in
\* which neither pair is fully specified is a rejected run
C1_ParsedUnspecifiedRunExitsOne ==
  (run.done /\ Parses /\ ~WinGiven /\ ~MacGiven) => RejectedRun

\* C1, witness: a run given a Windows url with an empty signature and no
\* macOS pair, on an output path that held a file, has exited with status 1
C1_Witness ==
  /\ run.done /\ Parses
  /\ argv.win_url = Some(WIN_URL) /\ argv.win_signature = Some("")
  /\ ~MacGiven
  /\ OutputPath \in Paths /\ run.before[OutputPath] = Old
  /\ run.out.exit = 1

-----------------------------------------------------------------------------
(* C2 *)

\* on the enclosure e, length is present iff the length argument is not
\* None, and then it is the integer written out
LengthAsSupplied(e, length) ==
  /\ HasAttr(e, Plain("length")) <=> length.some
  /\ HasAttr(e, Plain("length")) => Attr(e, Plain("length")) = ToString(length.v)

\* C2: on every enclosure create_appcast emits, the length attribute is
\* present if and only if the platform's length argument was supplied and
\* not None, whatever the integer (0 and negative ones included), and its
\* value is the stringified integer
C2_LengthIffSupplied ==
  \A i \in 1..Len(calls) :
    /\ \A k \in 1..Len(WithOs(calls[i].emitted, "windows")) :
         LengthAsSupplied(WithOs(calls[i].emitted, "windows")[k], desc.win_length)
    /\ \A k \in 1..Len(WithOs(calls[i].emitted, "macos")) :
         LengthAsSupplied(WithOs(calls[i].emitted, "macos")[k], desc.mac_length)

-----------------------------------------------------------------------------
(* C3 *)

\* the number of attributes of a start tag written with the given name
Count(x, name) == Cardinality({k \in 1..Len(x.attrs) : x.attrs[k][1] = name})

\* C3: for every valid descriptor create_appcast returns a string (the
\* re-parse never fails), a well-formed document whose root rss carries
\* version="2.0", exactly one declaration of the prefix sparkle and exactly
\* one of the prefix dc, each bound to its URI, and no attribute name twice
C3_ReturnsWellFormedRss ==
  \A i \in 1..Len(calls) :
    ValidDescriptor =>
      /\ calls[i].result.ok
      /\ LET root == calls[i].result.xml.v.root
         IN  /\ root.name = "rss"
             /\ <<"version", "2.0">> \in {root.attrs[k] : k \in 1..Len(root.attrs)}
             /\ Count(root, "xmlns:sparkle") = 1
             /\ <<"xmlns:sparkle", SPARKLE_NS>> \in
                  {root.attrs[k] : k \in 1..Len(root.attrs)}
             /\ Count(root, "xmlns:dc") = 1
             /\ <<"xmlns:dc", DC_NS>> \in
                  {root.attrs[k] : k \in 1..Len(root.attrs)}
             /\ \A k \in 1..Len(root.attrs) : Count(root, root.attrs[k][1]) = 1

-----------------------------------------------------------------------------
(* C4 *)

\* C4: for each platform, what create_appcast returns holds exactly one
\* enclosure with that sparkle:os when the platform's url and signature
\* were both given, and none otherwise
C4_OneEnclosurePerGivenPlatform ==
  \A i \in 1..Len(calls) :
    /\ calls[i].result.ok
    /\ LET it == ItemOf(fromstring(calls[i].result.xml.v))
       IN  /\ Len(EnclosuresFor(it, "windows")) = IF WinGiven THEN 1 ELSE 0
           /\ Len(EnclosuresFor(it, "macos")) = IF MacGiven THEN 1 ELSE 0

-----------------------------------------------------------------------------
(* C5 *)

\* C5: for every valid descriptor with both variants, the item of what
\* create_appcast returns holds exactly two enclosures, the Windows one
\* before the macOS one, both after title, pubDate and releaseNotesLink
C5_WindowsBeforeMacos ==
  \A i \in 1..Len(calls) :
    (WinGiven /\ MacGiven) =>
      /\ calls[i].result.ok
      /\ LET it == ItemOf(fromstring(calls[i].result.xml.v))
             first == IndexOf(it, Plain("enclosure"))
         IN  /\ Len(Enclosures(it)) = 2
             /\ Attr(Enclosures(it)[1], Clark(SPARKLE_NS, "os")) = "windows"
             /\ Attr(Enclosures(it)[2], Clark(SPARKLE_NS, "os")) = "macos"
             /\ \A tag \in {Plain("title"), Plain("pubDate"),
                            Clark(SPARKLE_NS, "releaseNotesLink")} :
                  0 < IndexOf(it, tag) /\ IndexOf(it, tag) < first

-----------------------------------------------------------------------------
(* C6 *)

\* the enclosure e carries the url and signature given, the release version
\* and the fixed type
CarriesSupplied(e, url, sig) ==
  /\ HasAttr(e, Plain("url")) /\ Attr(e, Plain("url")) = url.v
  /\ HasAttr(e, Clark(SPARKLE_NS, "edSignature"))
  /\ Attr(e, Clark(SPARKLE_NS, "edSignature")) = sig.v
  /\ HasAttr(e, Clark(SPARKLE_NS, "version"))
  /\ Attr(e, Clark(SPARKLE_NS, "version")) = desc.version
  /\ HasAttr(e, Plain("type"))
  /\ Attr(e, Plain("type")) = "application/octet-stream"

\* C6: for every valid descriptor, parsing what create_appcast returns
\* gives a channel/item whose title is "Version " and the version, and
\* whose enclosures carry the values supplied for their own platform
C6_RoundTrip ==
  \A i \in 1..Len(calls) :
    ValidDescriptor =>
      /\ calls[i].result.ok
      /\ LET it == ItemOf(fromstring(calls[i].result.xml.v))
         IN  /\ Children(it, Plain("title"))[1].text = "Version " \o desc.version
             /\ \A k \in 1..Len(EnclosuresFor(it, "windows")) :
                  CarriesSupplied(EnclosuresFor(it, "windows")[k],
                                  argv.win_url, argv.win_signature)
             /\ \A k \in 1..Len(EnclosuresFor(it, "macos")) :
                  CarriesSupplied(EnclosuresFor(it, "macos")[k],
                                  argv.mac_url, argv.mac_signature)
             /\ Len(Enclosures(it)) =
                  Len(EnclosuresFor(it, "windows")) + Len(EnclosuresFor(it, "macos"))

-----------------------------------------------------------------------------
(* C7 *)

\* the documents among what a stream holds
Documents(stream) ==
  {stream[k].xml : k \in {j \in 1..Len(stream) : stream[j].kind = "xml"}}

-----------------------------------------------------------------------------
(* C8 *)

\* the bindings of a registry that involve the prefix or the uri
Involving(reg, prefix, uri) == {e \in reg : e[1] = uri \/ e[2] = prefix}

-----------------------------------------------------------------------------
(* C9 *)

\* the positions of the step ev among the steps of the run
Positions(ev) == {i \in 1..Len(run.out.events) : run.out.events[i] = ev}

\* C9: in every run the output path is opened for writing at most once, and
\* only after validation has passed and create_appcast has returned; a run
\* that fails (in the argument parser, in validation or inside
\* create_appcast) never opens it, and a run that does not open it leaves
\* every file as it was
C9_OpenedOnlyAfterBuild ==
  run.done =>
    /\ Cardinality(Positions("open")) <= 1
    /\ \A i \in Positions("open") :
         /\ \E j \in Positions("validate") : j < i
         /\ \E j \in Positions("returned") : j < i
    /\ run.out.exit # 0 => Positions("open") = {}
    /\ Positions("open") = {} => files = run.before

\* C9, witness: a run that failed inside create_appcast, after validation,
\* on an output path that held a file, which it still holds
C9_Witness ==
  /\ run.done
  /\ Took("validate") /\ Took("raised")
  /\ OutputPath \in Paths /\ run.before[OutputPath] = Old
  /\ files[OutputPath] = Old

-----------------------------------------------------------------------------
(* C10 *)

\* a document holds at least one enclosure
HoldsEnclosure(doc) == Len(Enclosures(ItemOf(fromstring(doc.v)))) >= 1

\* C10: every document the driver writes, to a file or to standard output,
\* holds at least one enclosure; the driver validates a platform with the
\* predicate by which the builder emits its enclosure; and the builder
\* called with no fully specified platform returns a document without
\* enclosures instead of failing
C10_WrittenDocumentHoldsEnclosure ==
  /\ run.done =>
       /\ \A doc \in Documents(run.out.stdout) : HoldsEnclosure(doc)
       /\ \A p \in Paths : files[p].kind = "xml" => HoldsEnclosure(files[p].xml)
  /\ Parses =>
       /\ has_windows(parse_args(argv).args) <=> win_enclosure(desc) # << >>
       /\ has_macos(parse_args(argv).args) <=> mac_enclosure(desc) # << >>
  /\ \A i \in 1..Len(calls) :
       (~WinGiven /\ ~MacGiven) =>
         /\ calls[i].result.ok
         /\ Len(Enclosures(ItemOf(fromstring(calls[i].result.xml.v)))) = 0

====
